---------------------------- MODULE Spec2Model ----------------------------
(***************************************************************************)
(* urlstat: page-view / unique-visitor statistics.                         *)
(*                                                                         *)
(* The model covers the storage operations (saveVisit, countVisit,         *)
(* cleanup), the HTTP handler recording with its GitHub mode, the index    *)
(* readiness cache (ensureIndexesOnce), the startup of the process         *)
(* (init, waitForConnection, ensureAllIndexes) and the dashboard with its  *)
(* per-partition tasks and its days parameter.                             *)
(*                                                                         *)
(* Strings that the code inspects with strings.Contains (origins, user     *)
(* names, user agents) are sequences of segments, so that containment is   *)
(* computed and not assumed.  The visits table is a bag of rows: the       *)
(* BIGSERIAL id, ua and referer columns are read by no query and are left  *)
(* out of a row.                                                           *)
(***************************************************************************)
EXTENDS Integers, Sequences, FiniteSets, Bags, TLC

VARIABLES
    visits,     \* the visits table: a bag of rows
    now,        \* time.Now().UTC(), in days
    q,          \* the last countVisit call and what it returned
    cl,         \* the cleanup call in progress and what it returned
    req,        \* the recording request in progress and its response
    served,     \* number of recording requests accepted so far
    indexedCollections, \* sync.Map of collection names (the readiness marker)
    bg,         \* per collection, the background ensure goroutines running
    started,    \* per collection, how many goroutines ensureIndexesOnce started
    calls,      \* number of ensureIndexesOnce calls made so far
    boot,       \* the goroutine of init() that runs ensureAllIndexes
    dash        \* the dashboard request in progress and its response

vars == <<visits, now, q, cl, req, served, indexedCollections, bg, started, calls,
         boot, dash>>

storeVars == <<visits, now, q, cl, req, served, dash>>
indexVars == <<indexedCollections, bg, started, calls, boot>>

----------------------------------------------------------------------------
(* Bounds of the model *)

\* recording requests accepted in one behaviour
MaxRequests == 2
\* ensureIndexesOnce calls made in one behaviour
MaxCalls == 4

----------------------------------------------------------------------------
(* Strings as sequences of segments *)

\* strings.Contains(s, sub)
Contains(s, sub) ==
    \E i \in 0..(Len(s) - Len(sub)) : SubSeq(s, i + 1, i + Len(sub)) = sub

\* fmt.Sprintf("%s://%s", u.Scheme, u.Host)
Origin(u) == u.Scheme \o <<"://">> \o u.Host

H1 == <<"h1">>
H2 == <<"h2">>
\* a host that has an allowed host as a prefix, and one unrelated to the list
HEvil == <<"h1", ".evil">>
HBad == <<"bad">>
GitHubHost == <<"github.com">>

PX == <<"/x">>
PY == <<"/y">>

\* allowed.yml as loaded into source (production: true)
Domain == << <<"https", "://", "h1">>, <<"https", "://", "h2">> >>
GitHub == << <<"ck">> >>

\* (a *allowed) isAllowed(source, isDomain)
isAllowed(source, isDomain) ==
    IF isDomain
    THEN \E idx \in 1..Len(Domain) : Contains(source, Domain[idx])
    ELSE \E idx \in 1..Len(GitHub) : Contains(source, GitHub[idx])

----------------------------------------------------------------------------
(* The visits table *)

IPs == {"ip1", "ip2"}
\* uuid.New().String(): never empty
UUIDs == {"u1", "u2"}

\* rows of the bag B that are in S, with their multiplicity
Restrict(B, S) == [r \in DOMAIN B \cap S |-> B[r]]

\* a plausible slip: an upsert that replaces the visitor's earlier visit of
\* the path
InsertUpsert(B, row) ==
    [r \in {x \in DOMAIN B : ~(x.hostname = row.hostname /\ x.path = row.path
                                /\ x.visitor_id = row.visitor_id)} |-> B[r]]
        (+) SetToBag({row})

\* INSERT INTO visits (...) VALUES (...)
Insert(B, row) == B (+) SetToBag({row})

\* the threshold of cleanupSQL: HAVING COUNT(*) < 10
Threshold == 10

----------------------------------------------------------------------------
(* countVisit *)

\* a plausible slip: the page filter leaves out the partition
InPageAnyHost(hostname, path, r) == r.path = path
InPage(hostname, path, r) == r.hostname = hostname /\ r.path = path
InSite(hostname, r) == r.hostname = hostname

\* SELECT COUNT(*) as pv, COUNT(DISTINCT ip) as uv
\* FROM visits WHERE hostname = $1 AND path = $2
pageStatsSQL(V, hostname, path) ==
    LET S == Restrict(V, {r \in DOMAIN V : InPage(hostname, path, r)})
    IN  [pv |-> BagCardinality(S), uv |-> Cardinality({r.ip : r \in DOMAIN S})]

\* SELECT COUNT(*) as pv, COUNT(DISTINCT ip) as uv FROM visits WHERE hostname = $1
siteStatsSQL(V, hostname) ==
    LET S == Restrict(V, {r \in DOMAIN V : InSite(hostname, r)})
    IN  [pv |-> BagCardinality(S), uv |-> Cardinality({r.ip : r \in DOMAIN S})]

\* a plausible slip: the two result columns scanned in the wrong order
countVisitSwapped(V, hostname, path, mode) ==
    LET s == IF mode = "site" THEN siteStatsSQL(V, hostname)
             ELSE pageStatsSQL(V, hostname, path)
    IN  [pv |-> s.uv, uv |-> s.pv]

\* a plausible slip: the site query keeps the path filter of the page query
countVisitSiteByPath(V, hostname, path, mode) ==
    IF mode \in {"site", "page"} THEN pageStatsSQL(V, hostname, path)
    ELSE [pv |-> 0, uv |-> 0]

\* countVisit of the PostgreSQL revision; any other mode runs no query and
\* leaves pv, uv at zero with a nil error
countVisit(V, hostname, path, mode) ==
    CASE mode = "site" -> siteStatsSQL(V, hostname)
      [] mode = "page" -> pageStatsSQL(V, hostname, path)
      [] OTHER -> [pv |-> 0, uv |-> 0]

\* db.Database(dbname).Collection(hostname): one collection per hostname
Collection(V, hostname) == Restrict(V, {r \in DOMAIN V : r.hostname = hostname})

\* countVisit of the Mongo revision: CountDocuments({path}) and
\* len(Distinct("ip", {path: {$eq: path}})) on the collection
countVisitMongo(col, path) ==
    [pv |-> BagCardinality(Restrict(col, {r \in DOMAIN col : r.path = path})),
     uv |-> Cardinality({r.ip : r \in {x \in DOMAIN col : x.path = path}})]

----------------------------------------------------------------------------
(* cleanup *)

\* SELECT hostname, path FROM visits GROUP BY hostname, path HAVING COUNT(*) < 10
lowVisitPaths(S) ==
    {g \in {<<r.hostname, r.path>> : r \in DOMAIN S} :
        BagCardinality(Restrict(S, {r \in DOMAIN S : InPage(g[1], g[2], r)})) < Threshold}

\* a plausible slip: <= in place of <
cleanupSQLInclusive(S) ==
    Restrict(S, {r \in DOMAIN S :
        BagCardinality(Restrict(S, {x \in DOMAIN S : InPage(r.hostname, r.path, x)})) <= Threshold})

\* the rows cleanupSQL deletes, as the statement sees the table S:
\* DELETE FROM visits v USING low_visit_paths lvp
\* WHERE v.hostname = lvp.hostname AND v.path = lvp.path
cleanupSQL(S) ==
    Restrict(S, {r \in DOMAIN S : <<r.hostname, r.path>> \in lowVisitPaths(S)})

\* a plausible slip: the delete sees rows inserted after the scan
cleanupExecLive(V, S) ==
    V (-) Restrict(V, {r \in DOMAIN V : <<r.hostname, r.path>> \in lowVisitPaths(S)})

\* a plausible slip: the statement stops after the first group it selected
cleanupExecOneGroup(V, S) ==
    LET low == lowVisitPaths(S) IN
    IF low = {} THEN V
    ELSE LET g == CHOOSE x \in low : TRUE
         IN  V (-) Restrict(S, {r \in DOMAIN S : <<r.hostname, r.path>> = g})

\* the table V after the statement that read the snapshot S has run
cleanupExec(V, S) == V (-) cleanupSQL(S)

\* result.RowsAffected(): the rows the statement that read S deleted
RowsAffected(S) == BagCardinality(cleanupSQL(S))

----------------------------------------------------------------------------
(* Stores the service can hold: every bag of rows is reached by recording *)

\* a row of the visits table
Row(hostname, vid, path, ip, t) ==
    [hostname |-> hostname, visitor_id |-> vid, path |-> path, ip |-> ip,
     created_at |-> t]

\* number of visits of one kind in a seeded store: none, one, three, or one
\* less than the cleanup threshold; the kinds of a group add up to totals
\* below, at and above the threshold (9, 10, 12, 18)
SeedCounts == {0, 1, 3, Threshold - 1}

SeedStore(f) == [r \in {x \in DOMAIN f : f[x] > 0} |-> f[r]]

SeedStores(rows, counts) == {SeedStore(f) : f \in [rows -> counts]}

\* rows seeded for the counting specification: a partition with two paths
\* and two client addresses on each
CounterRows == {Row(H1, "u1", p, ip, 0) : p \in {PX, PY}, ip \in IPs}

\* and a second partition that holds at most one visit
OtherRows == {Row(H2, "u1", PX, "ip1", 0)}

Hostnames == {H1, H2}
Paths == {PX, PY}

----------------------------------------------------------------------------
(* State of the calls *)

NoQuery ==
    [rev |-> "", hostname |-> <<>>, path |-> <<>>, mode |-> "",
     pv |-> 0, uv |-> 0, err |-> FALSE]

NoCleanup ==
    [pc |-> "idle", snapshot |-> EmptyBag, deleted |-> 0, last |-> "none",
     ins |-> FALSE, after |-> FALSE]

----------------------------------------------------------------------------
(* countVisit as a call: one statement, which the storage may fail *)

CountVisit(hostname, path, mode) ==
    /\ \E fail \in BOOLEAN :
        LET s == countVisit(visits, hostname, path, mode)
        IN  \/ /\ ~fail
               /\ q' = [rev |-> "sql", hostname |-> hostname, path |-> path,
                        mode |-> mode, pv |-> s.pv, uv |-> s.uv, err |-> FALSE]
            \/ /\ fail
               /\ mode \in {"site", "page"}
               /\ q' = [rev |-> "sql", hostname |-> hostname, path |-> path,
                        mode |-> mode, pv |-> 0, uv |-> 0, err |-> TRUE]
    /\ UNCHANGED <<visits, now, cl, req, served>>
    /\ UNCHANGED indexVars
    /\ UNCHANGED dash

CountVisitMongo(hostname, path) ==
    /\ LET s == countVisitMongo(Collection(visits, hostname), path)
       IN  q' = [rev |-> "mongo", hostname |-> hostname, path |-> path,
                 mode |-> "page", pv |-> s.pv, uv |-> s.uv, err |-> FALSE]
    /\ UNCHANGED <<visits, now, cl, req, served>>
    /\ UNCHANGED indexVars
    /\ UNCHANGED dash

----------------------------------------------------------------------------
(* cleanup: db.Exec(ctx, cleanupSQL).  The statement reads the table as of  *)
(* its start (its snapshot) and deletes the rows of that snapshot that it   *)
(* selected; rows inserted after the snapshot are not seen by it.           *)

CleanupBegin ==
    /\ cl.pc = "idle"
    /\ cl' = [cl EXCEPT !.pc = "scan", !.snapshot = visits, !.deleted = 0,
                        !.after = (cl.last = "ok" /\ ~cl.ins),
                        !.ins = FALSE]
    /\ UNCHANGED <<visits, now, q, req, served>>
    /\ UNCHANGED indexVars
    /\ UNCHANGED dash

CleanupEnd ==
    /\ cl.pc = "scan"
    /\ \/ /\ visits' = cleanupExec(visits, cl.snapshot)
          /\ cl' = [cl EXCEPT !.pc = "idle", !.snapshot = EmptyBag,
                              !.deleted = RowsAffected(cl.snapshot),
                              !.last = "ok"]
       \/ /\ visits' = visits
          /\ cl' = [cl EXCEPT !.pc = "idle", !.snapshot = EmptyBag,
                              !.deleted = 0, !.last = "err"]
    /\ UNCHANGED <<now, q, req, served>>
    /\ UNCHANGED indexVars
    /\ UNCHANGED dash

----------------------------------------------------------------------------
(* Requests to /urlstat *)

\* url.Parse(loc): the parsed URL, or an error
URL(scheme, host, path) == [err |-> FALSE, Scheme |-> scheme, Host |-> host, Path |-> path]
BadURL == [err |-> TRUE, Scheme |-> <<>>, Host |-> <<>>, Path |-> <<>>]

HTTPS == <<"https">>
HTTP == <<"http">>

NoRepo == [ok |-> FALSE, ss |-> <<>>]
Repo(ss) == [ok |-> TRUE, ss |-> ss]

Request(method, mode, url, cookie, ip, report, ua, repo, status) ==
    [method |-> method, mode |-> mode, url |-> url, cookie |-> cookie, ip |-> ip,
     report |-> report, ua |-> ua, repo |-> repo, status |-> status]

Browser == <<"Mozilla">>
Camo == <<"github-camo">>

\* the urlstat_vid cookie of a request: absent (or empty), or a token
Cookies == {"", "v1"}

\* values of the report query parameter, split at " "
Reports == {<<>>, <<"page", "site">>}

\* declared URLs of the allowed sites
SiteURLs == {URL(HTTPS, H1, PX), URL(HTTPS, H1, PY), URL(HTTPS, H2, PX)}
\* declared URLs of other sites, and a header that does not parse
OtherURLs == {URL(HTTPS, HEvil, PX), URL(HTTPS, HBad, PX), URL(HTTP, H1, PX), BadURL}

PlainRequests ==
    {Request("GET", "", u, c, "ip1", rep, Browser, NoRepo, "")
        : u \in SiteURLs, c \in Cookies, rep \in Reports}
    \cup {Request("GET", "", u, "", "ip1", <<"page">>, Browser, NoRepo, "")
        : u \in OtherURLs}
    \cup {Request("OPTIONS", "", URL(HTTPS, H1, PX), "", "ip1", <<>>, Browser, NoRepo, "")}

CkRepo == Repo(<< <<"ck">>, <<"urlstat">> >>)

\* GitHub mode: the badge requests that reach the store, and one request
\* for every check that turns a request away
GitHubRequests ==
    {Request("GET", "github", BadURL, c, "ip1", <<>>, Camo, CkRepo, st)
        : c \in Cookies, st \in {"200", "301"}}
    \cup {Request("GET", "github", BadURL, "", "ip1", <<>>, Browser, CkRepo, "200")}
    \cup {Request("GET", "github", BadURL, "", "ip1", <<>>, Camo, r, "200")
        : r \in {NoRepo, Repo(<< <<"ck">> >>), Repo(<< <<"eve">>, <<"x">> >>)}}
    \cup {Request("GET", "github", BadURL, "", "ip1", <<>>, Camo, CkRepo, st)
        : st \in {"404", "err"}}

Requests == PlainRequests \cup GitHubRequests

NoStat == [PagePV |-> 0, PageUV |-> 0, SitePV |-> 0, SiteUV |-> 0]

\* a request slot: the handler's locals and the response written so far
Idle ==
    [pc |-> "idle", in |-> Request("", "", BadURL, "", "", <<>>, <<>>, NoRepo, ""),
     hostname |-> <<>>, path |-> <<>>, vid |-> "", todo |-> <<>>, stat |-> NoStat,
     err |-> "", setCookie |-> "", body |-> "", inserts |-> 0, counts |-> 0]

\* the handler returns: err is written by the deferred http.Error
Fail(r, msg) == [r EXCEPT !.pc = "done", !.err = msg]

----------------------------------------------------------------------------
(* githubMode up to the save: the checks of the request and of the repository *)

\* fmt.Sprintf("%s/%s", "https://github.com", loc), loc = ss[0] + "/" + ss[1]
RepoPath(ss) == <<"https://github.com", "/">> \o ss[1] \o <<"/">> \o ss[2]
\* resp.Header.Get("Location") of a moved repository
MovedPath == <<"https://github.com", "/", "moved">>

githubMode(r) ==
    LET in == r.in IN
    IF ~Contains(in.ua, Camo) THEN Fail(r, "origin not allowed, require github")
    ELSE IF ~in.repo.ok THEN Fail(r, "missing location query parameter")
    ELSE IF Len(in.repo.ss) # 2 THEN Fail(r, "invalid input, require username/repo")
    ELSE IF ~isAllowed(in.repo.ss[1], FALSE) THEN Fail(r, "username is not allowed")
    ELSE IF in.status = "err" THEN Fail(r, "failed to request github")
    ELSE IF in.status \notin {"200", "301"} THEN Fail(r, "not a GitHub repository")
    ELSE [r EXCEPT !.pc = "save", !.hostname = GitHubHost,
                   !.path = IF in.status = "301" THEN MovedPath ELSE RepoPath(in.repo.ss),
                   !.todo = <<"page">>]

\* a plausible slip: the partition named by the origin, scheme included
plainModeOrigin(r) ==
    LET u == r.in.url IN
    IF u.err THEN Fail(r, "cannot parse url")
    ELSE IF ~isAllowed(Origin(u), TRUE) THEN Fail(r, "origin not allowed")
    ELSE [r EXCEPT !.pc = "save", !.hostname = Origin(u), !.path = u.Path,
                   !.todo = r.in.report]

\* recording in plain mode up to the save: the declared URL and its origin
plainMode(r) ==
    LET u == r.in.url IN
    IF u.err THEN Fail(r, "cannot parse url")
    ELSE IF ~isAllowed(Origin(u), TRUE) THEN Fail(r, "origin not allowed")
    ELSE [r EXCEPT !.pc = "save", !.hostname = u.Host, !.path = u.Path,
                   !.todo = r.in.report]

\* a request arrives: recording runs up to its first storage call
RecordingStart(in) ==
    /\ req.pc \in {"idle", "done"}
    /\ served < MaxRequests
    /\ served' = served + 1
    /\ LET r == [Idle EXCEPT !.in = in] IN
       req' = IF in.method = "OPTIONS" THEN [r EXCEPT !.pc = "done"]
              ELSE IF in.mode = "github" THEN githubMode(r)
              ELSE plainMode(r)
    /\ UNCHANGED <<visits, now, q, cl>>
    /\ UNCHANGED indexVars
    /\ UNCHANGED dash

----------------------------------------------------------------------------
(* saveVisit *)

\* a plausible slip: a new identifier is generated for every visit
resolveAlwaysNew(VisitorID, uuid) == uuid

\* if v.VisitorID == "" { v.VisitorID = uuid.New().String() }
resolveVisitorID(VisitorID, uuid) == IF VisitorID = "" THEN uuid ELSE VisitorID

\* a plausible slip: the resolved identifier is returned with the error too
saveVisitKeepsID(V, hostname, v, uuid, ok) ==
    LET id == resolveVisitorID(v.VisitorID, uuid) IN
    IF ok
    THEN [visits |-> Insert(V, Row(hostname, id, v.Path, v.IP, v.Time)),
          vid |-> id, err |-> FALSE]
    ELSE [visits |-> V, vid |-> id, err |-> TRUE]

\* saveVisit(ctx, hostname, v): uuid is what uuid.New() yields when it is
\* called, ok whether db.Exec(ctx, insertSQL, ...) succeeds
saveVisit(V, hostname, v, uuid, ok) ==
    LET id == resolveVisitorID(v.VisitorID, uuid) IN
    IF ok
    THEN [visits |-> Insert(V, Row(hostname, id, v.Path, v.IP, v.Time)),
          vid |-> id, err |-> FALSE]
    ELSE [visits |-> V, vid |-> "", err |-> TRUE]

\* a plausible slip: the cookie is set whenever a visitor id came back
setCookieAlways(cookieVid, vid) == vid

\* if cookieVid == "" && vid != "" { w.Header().Set("Set-Cookie", ...) }
setCookie(cookieVid, vid) == IF cookieVid = "" /\ vid # "" THEN vid ELSE ""

\* the response once every count is done: the JSON stat, or the badge
Respond(r) ==
    IF r.todo = <<>>
    THEN [r EXCEPT !.pc = "done",
                   !.body = IF r.in.mode = "github" THEN "badge" ELSE "json"]
    ELSE [r EXCEPT !.pc = "count"]

\* recording / githubMode: the visit is saved, the cookie set
SaveVisit ==
    /\ req.pc = "save"
    /\ \E uuid \in UUIDs, ok \in BOOLEAN :
        LET v == [VisitorID |-> req.in.cookie, Path |-> req.path, IP |-> req.in.ip,
                  Time |-> now]
            s == saveVisit(visits, req.hostname, v, uuid, ok)
            r == [req EXCEPT !.inserts = @ + 1, !.vid = s.vid]
        IN  /\ visits' = s.visits
            /\ req' = IF s.err THEN Fail(r, "failed to save visit")
                      ELSE Respond([r EXCEPT !.setCookie = setCookie(req.in.cookie, s.vid)])
            /\ cl' = IF s.visits # visits THEN [cl EXCEPT !.ins = TRUE] ELSE cl
    /\ UNCHANGED <<now, q, served>>
    /\ UNCHANGED indexVars
    /\ UNCHANGED dash

\* stat after the count of one report argument
Report(stat, arg, s) ==
    CASE arg = "page" -> [stat EXCEPT !.PagePV = s.pv, !.PageUV = s.uv]
      [] arg = "site" -> [stat EXCEPT !.SitePV = s.pv, !.SiteUV = s.uv]
      [] OTHER -> stat

\* recording / githubMode: the count of the next report argument
CountStep ==
    /\ req.pc = "count"
    /\ LET arg == Head(req.todo)
           s == countVisit(visits, req.hostname, req.path, arg)
           r == [req EXCEPT !.counts = @ + 1, !.todo = Tail(@)]
       IN  \/ req' = Respond([r EXCEPT !.stat = Report(@, arg, s)])
           \/ req' = Fail(r, "failed to count")
    /\ UNCHANGED <<visits, now, q, cl, served>>
    /\ UNCHANGED indexVars
    /\ UNCHANGED dash

----------------------------------------------------------------------------
(* The readiness cache: indexedCollections and the background goroutines *)

\* collections whose indexes are asked for
Collections == {H1, H2}

\* ensureIndexesWithRetry(ctx, col, 3)
maxRetries == 3

\* a plausible slip: Load and Store in place of LoadOrStore, the loaded
\* result of a racing call lost
LoadOrStoreRacy(m, name) == [loaded |-> FALSE, m |-> m \cup {name}]

\* indexedCollections.LoadOrStore(name, true)
LoadOrStore(m, name) == [loaded |-> name \in m, m |-> m \cup {name}]

RemoveAt(seq, k) == SubSeq(seq, 1, k - 1) \o SubSeq(seq, k + 1, Len(seq))

\* errors: nil, the error of the k-th CreateMany, ctx.Err()
NoErr == <<>>
CreateErr(k) == <<"CreateMany", k>>
CtxErr == <<"ctx">>

\* ensureIndexesWithRetry when called: i := 0, nothing tried, nothing waited
NewRun == [i |-> 0, pc |-> "try", err |-> NoErr, attempts |-> 0, waits |-> <<>>]

\* a plausible slip: a constant delay
backoffConstant(i) == 2

\* time.Duration(i+1) * 2 * time.Second, in seconds
backoff(i) == (i + 1) * 2

\* a plausible slip: the loop goes on after a successful attempt
tryOnceNoReturn(p, ok) ==
    [p EXCEPT !.pc = "wait", !.err = IF ok THEN NoErr ELSE CreateErr(p.i + 1),
              !.attempts = @ + 1]

\* err = ensureIndexes(ctx, col); if err == nil { return nil }
tryOnce(p, ok) ==
    IF ok
    THEN [p EXCEPT !.pc = "returned", !.err = NoErr, !.attempts = @ + 1]
    ELSE [p EXCEPT !.pc = "wait", !.err = CreateErr(p.i + 1), !.attempts = @ + 1]

\* a plausible slip: i < maxRetries tested as i <= maxRetries
selectWaitOneMore(p, done) ==
    IF done
    THEN [p EXCEPT !.pc = "returned", !.err = CtxErr]
    ELSE [p EXCEPT !.waits = Append(@, backoff(p.i)), !.i = @ + 1,
                   !.pc = IF p.i + 1 <= maxRetries THEN "try" ELSE "returned"]

\* the select after a failed attempt: ctx.Done() returns ctx.Err(); the
\* timer lets the loop go on with i+1, and the loop ends with return err
\* when i+1 is maxRetries
selectWait(p, done) ==
    IF done
    THEN [p EXCEPT !.pc = "returned", !.err = CtxErr]
    ELSE [p EXCEPT !.waits = Append(@, backoff(p.i)), !.i = @ + 1,
                   !.pc = IF p.i + 1 < maxRetries THEN "try" ELSE "returned"]

\* a plausible slip: the marker deleted whatever the outcome
goroutineExitDeletes(m, name, err) == m \ {name}

\* a plausible slip: the marker kept after a failure
goroutineExitKeeps(m, name, err) == m

\* if err := ensureIndexesWithRetry(...); err != nil { ...Delete(name) }
goroutineExit(m, name, err) == IF err # NoErr THEN m \ {name} ELSE m

\* ensureIndexesOnce(col): the marker is taken and the goroutine started, or
\* the call returns at once
EnsureIndexesOnce(name) ==
    /\ calls < MaxCalls
    /\ calls' = calls + 1
    /\ LET s == LoadOrStore(indexedCollections, name) IN
        /\ indexedCollections' = s.m
        /\ IF s.loaded
           THEN UNCHANGED <<bg, started>>
           ELSE /\ bg' = [bg EXCEPT ![name] = Append(@, NewRun)]
                /\ started' = [started EXCEPT ![name] = @ + 1]
    /\ UNCHANGED boot
    /\ UNCHANGED storeVars

\* one ensureIndexes call of the goroutine
EnsureAttempt(name, k) ==
    /\ k \in 1..Len(bg[name])
    /\ bg[name][k].pc = "try"
    /\ \E ok \in BOOLEAN : bg' = [bg EXCEPT ![name][k] = tryOnce(@, ok)]
    /\ UNCHANGED <<indexedCollections, started, calls, boot>>
    /\ UNCHANGED storeVars

\* the select of the goroutine after a failed attempt
Backoff(name, k) ==
    /\ k \in 1..Len(bg[name])
    /\ bg[name][k].pc = "wait"
    /\ \E done \in BOOLEAN : bg' = [bg EXCEPT ![name][k] = selectWait(@, done)]
    /\ UNCHANGED <<indexedCollections, started, calls, boot>>
    /\ UNCHANGED storeVars

\* ensureIndexesWithRetry has returned to the goroutine: an error is logged
\* and the marker deleted, and the goroutine ends
GoroutineExit(name, k) ==
    /\ k \in 1..Len(bg[name])
    /\ bg[name][k].pc = "returned"
    /\ indexedCollections' = goroutineExit(indexedCollections, name, bg[name][k].err)
    /\ bg' = [bg EXCEPT ![name] = RemoveAt(@, k)]
    /\ UNCHANGED <<started, calls, boot>>
    /\ UNCHANGED storeVars

\* the goroutine of ensureIndexesOnce in the revision of indexes.go: one
\* ensureIndexes call with context.Background(), no retry and no deadline
BackgroundRun == [NewRun EXCEPT !.pc = "once"]

\* ensureIndexesOnce(col) of indexes.go
EnsureIndexesOnceBackground(name) ==
    /\ calls < MaxCalls
    /\ calls' = calls + 1
    /\ LET s == LoadOrStore(indexedCollections, name) IN
        /\ indexedCollections' = s.m
        /\ IF s.loaded
           THEN UNCHANGED <<bg, started>>
           ELSE /\ bg' = [bg EXCEPT ![name] = Append(@, BackgroundRun)]
                /\ started' = [started EXCEPT ![name] = @ + 1]
    /\ UNCHANGED boot
    /\ UNCHANGED storeVars

\* ensureIndexes(ctx, col) of that goroutine has returned: nothing bounds
\* the time CreateMany takes
EnsureBackground(name, k) ==
    /\ k \in 1..Len(bg[name])
    /\ bg[name][k].pc = "once"
    /\ \E ok \in BOOLEAN :
        bg' = [bg EXCEPT ![name][k] =
                  [@ EXCEPT !.pc = "returned", !.attempts = 1,
                            !.err = IF ok THEN NoErr ELSE CreateErr(1)]]
    /\ UNCHANGED <<indexedCollections, started, calls, boot>>
    /\ UNCHANGED storeVars

\* what ListCollectionNames can return: the collections that exist
Existing == {<<>>, <<H1>>, <<H2>>, <<H1, H2>>, <<H2, H1>>}

\* waitForConnection: for i := 0; i < 10; i++
connAttempts == 10

\* time.After(2 * time.Second), in seconds
pollInterval == 2

PingErr(k) == <<"Ping", k>>

\* waitForConnection when called: i := 0, no ping made, nothing waited; up
\* is set when a ping has succeeded
NewConn ==
    [i |-> 0, pc |-> "ping", pings |-> 0, waits |-> <<>>, err |-> NoErr,
     up |-> FALSE]

\* a plausible slip: the loop goes on after a successful ping
pingOnceNoReturn(c, ok) ==
    IF c.i < connAttempts
    THEN [c EXCEPT !.pc = "select", !.pings = @ + 1, !.up = @ \/ ok,
                   !.err = IF ok THEN NoErr ELSE PingErr(c.pings + 1)]
    ELSE [c EXCEPT !.pc = "returned", !.pings = @ + 1, !.up = @ \/ ok,
                   !.err = IF ok THEN NoErr ELSE PingErr(c.pings + 1)]

\* err := client.Ping(pingCtx, nil); if err == nil { return nil } inside the
\* loop, and return client.Ping(ctx, nil) after it
pingOnce(c, ok) ==
    IF ok
    THEN [c EXCEPT !.pc = "returned", !.pings = @ + 1, !.up = TRUE, !.err = NoErr]
    ELSE IF c.i < connAttempts
    THEN [c EXCEPT !.pc = "select", !.pings = @ + 1, !.err = PingErr(c.pings + 1)]
    ELSE [c EXCEPT !.pc = "returned", !.pings = @ + 1, !.err = PingErr(c.pings + 1)]

\* a plausible slip: the wait grows with the attempt as in the index retry
pollWaitGrowing(c, done) ==
    IF done
    THEN [c EXCEPT !.pc = "returned", !.err = CtxErr]
    ELSE [c EXCEPT !.waits = Append(@, (c.i + 1) * pollInterval), !.i = @ + 1,
                   !.pc = "ping"]

\* the select after a failed ping: ctx.Done() returns ctx.Err(), the timer
\* lets the loop go on with i+1
pollWait(c, done) ==
    IF done
    THEN [c EXCEPT !.pc = "returned", !.err = CtxErr]
    ELSE [c EXCEPT !.waits = Append(@, pollInterval), !.i = @ + 1, !.pc = "ping"]

\* the process serving, with the goroutine of init() about to run
\* ensureAllIndexes
NoBoot ==
    [pc |-> "connect", conn |-> NewConn, todo |-> <<>>, name |-> <<>>,
     run |-> NewRun, err |-> NoErr, rev |-> "mongo", proc |-> "serving"]

\* the process when init() is entered
Booting == [NoBoot EXCEPT !.pc = "init", !.rev = "", !.proc = "init"]

\* l.Fatalf: the message is logged and the process exits
Fatalf(b, err) == [b EXCEPT !.pc = "done", !.proc = "fatal", !.err = err]

\* init(): the Mongo revision connects, which fails on a bad configuration
\* only, and starts the goroutine of ensureAllIndexes; the PostgreSQL
\* revision makes the pool and pings it.  A failure is fatal.
StartupInit ==
    /\ boot.pc = "init"
    /\ \/ \E ok \in BOOLEAN :
            boot' = IF ok
                    THEN [boot EXCEPT !.rev = "mongo", !.pc = "connect", !.proc = "main"]
                    ELSE Fatalf([boot EXCEPT !.rev = "mongo"], <<"mongo.Connect">>)
       \/ \E r \in {<<>>, <<"pgxpool.New">>, <<"db.Ping">>} :
            boot' = IF r = <<>>
                    THEN [boot EXCEPT !.rev = "pg", !.pc = "done", !.proc = "main"]
                    ELSE Fatalf([boot EXCEPT !.rev = "pg"], r)
    /\ UNCHANGED <<indexedCollections, bg, started, calls>>
    /\ UNCHANGED storeVars

\* main(): s.ListenAndServe(), whose failure to listen is fatal
StartupServe ==
    /\ boot.proc = "main"
    /\ \E ok \in BOOLEAN :
        boot' = IF ok THEN [boot EXCEPT !.proc = "serving"]
                ELSE Fatalf(boot, <<"ListenAndServe">>)
    /\ UNCHANGED <<indexedCollections, bg, started, calls>>
    /\ UNCHANGED storeVars

\* ensureAllIndexes: waitForConnection, a ping or a select of it, and at
\* its return, where its locals end, the error returned or the listing next
StartupConnect ==
    /\ boot.pc = "connect"
    /\ \/ /\ boot.conn.pc = "ping"
          /\ \E ok \in BOOLEAN : boot' = [boot EXCEPT !.conn = pingOnce(@, ok)]
       \/ /\ boot.conn.pc = "select"
          /\ \E done \in BOOLEAN : boot' = [boot EXCEPT !.conn = pollWait(@, done)]
       \/ /\ boot.conn.pc = "returned"
          /\ boot' = [boot EXCEPT !.err = boot.conn.err, !.conn = NewConn,
                                  !.pc = IF boot.conn.err # NoErr THEN "done"
                                         ELSE "list"]
    /\ UNCHANGED <<indexedCollections, bg, started, calls>>
    /\ UNCHANGED storeVars

\* ensureAllIndexes: ListCollectionNames fails and is returned, or gives the
\* names to loop over
StartupList ==
    /\ boot.pc = "list"
    /\ \/ boot' = [boot EXCEPT !.pc = "done", !.err = <<"ListCollectionNames">>]
       \/ \E cols \in Existing : boot' = [boot EXCEPT !.pc = "loop", !.todo = cols]
    /\ UNCHANGED <<indexedCollections, bg, started, calls>>
    /\ UNCHANGED storeVars

\* for _, name := range collections: the next name, or return nil
StartupNext ==
    /\ boot.pc = "loop"
    /\ IF boot.todo = <<>>
       THEN boot' = [boot EXCEPT !.pc = "done"]
       ELSE boot' = [boot EXCEPT !.pc = "run", !.name = Head(boot.todo),
                                 !.todo = Tail(boot.todo), !.run = NewRun]
    /\ UNCHANGED <<indexedCollections, bg, started, calls>>
    /\ UNCHANGED storeVars

\* ensureIndexesWithRetry(ctx, col, 3) of the loop: an attempt, a select, or
\* its return, after which the loop goes on whatever the error
StartupStep ==
    /\ boot.pc = "run"
    /\ \/ /\ boot.run.pc = "try"
          /\ \E ok \in BOOLEAN : boot' = [boot EXCEPT !.run = tryOnce(@, ok)]
       \/ /\ boot.run.pc = "wait"
          /\ \E done \in BOOLEAN : boot' = [boot EXCEPT !.run = selectWait(@, done)]
       \/ /\ boot.run.pc = "returned"
          /\ boot' = [boot EXCEPT !.pc = "loop", !.name = <<>>, !.run = NewRun]
    /\ UNCHANGED <<indexedCollections, bg, started, calls>>
    /\ UNCHANGED storeVars

----------------------------------------------------------------------------
(* The dashboards: dashboardAPI over SQL, dashboard over the Mongo         *)
(* aggregation pipeline, and the older dashbaord over countVisit           *)

\* the orders in which a storage may return the elements of S
Orders(S) ==
    {f \in [1..Cardinality(S) -> S] : \A i, j \in DOMAIN f : i # j => f[i] # f[j]}

\* r.URL.Query().Get("days"), a text: empty when the parameter is absent
NoDays == <<>>
BadDays == <<"a">>

decimalDigits == <<"0", "1", "2", "3", "4", "5", "6", "7", "8", "9">>

IsDigit(c) == \E k \in 1..10 : decimalDigits[k] = c
DigitValue(c) == (CHOOSE k \in 1..10 : decimalDigits[k] = c) - 1

\* a number as a client writes it in the query
RECURSIVE Numeral(_)
Numeral(n) ==
    IF n < 10 THEN <<decimalDigits[n + 1]>>
    ELSE Numeral(n \div 10) \o <<decimalDigits[(n % 10) + 1]>>

Days(val) == IF val < 0 THEN <<"-">> \o Numeral(-val) ELSE Numeral(val)

DefaultDays == 30
MaxDays == 365

\* fmt.Sscanf(d, "%d", &days): spaces are skipped, a sign is accepted, the
\* token is the longest run of digits and underscores, and strconv.ParseInt
\* in base 10 refuses an empty token and an underscore; what follows the
\* token is not read
RECURSIVE SkipSpace(_)
SkipSpace(s) == IF s # <<>> /\ Head(s) = " " THEN SkipSpace(Tail(s)) ELSE s

RECURSIVE scanNumber(_)
scanNumber(s) ==
    IF s # <<>> /\ (IsDigit(Head(s)) \/ Head(s) = "_")
    THEN <<Head(s)>> \o scanNumber(Tail(s)) ELSE <<>>

RECURSIVE ParseInt(_, _)
ParseInt(tok, acc) ==
    IF tok = <<>> THEN acc
    ELSE ParseInt(Tail(tok), 10 * acc + DigitValue(Head(tok)))

Sscanf(d) ==
    LET t == SkipSpace(d)
        signed == t # <<>> /\ Head(t) \in {"+", "-"}
        tok == scanNumber(IF signed THEN Tail(t) ELSE t)
    IN  IF tok = <<>> \/ \E i \in DOMAIN tok : tok[i] = "_"
        THEN [ok |-> FALSE, val |-> 0]
        ELSE [ok |-> TRUE,
              val |-> IF signed /\ Head(t) = "-" THEN 0 - ParseInt(tok, 0)
                      ELSE ParseInt(tok, 0)]

\* a plausible slip: days <= 0 tested as days < 0
parseDaysZero(d) ==
    LET v == IF d # <<>> /\ Sscanf(d).ok THEN Sscanf(d).val ELSE DefaultDays
    IN  IF v < 0 \/ v > MaxDays THEN DefaultDays ELSE v

\* a plausible slip: the upper limit not tested
parseDaysNoMax(d) ==
    LET v == IF d # <<>> /\ Sscanf(d).ok THEN Sscanf(d).val ELSE DefaultDays
    IN  IF v <= 0 THEN DefaultDays ELSE v

\* days := 30; Sscanf(d, "%d", &days); if days <= 0 || days > 365 { days = 30 }
parseDays(d) ==
    LET v == IF d # <<>> /\ Sscanf(d).ok THEN Sscanf(d).val ELSE DefaultDays
    IN  IF v <= 0 \/ v > MaxDays THEN DefaultDays ELSE v

\* a plausible slip: the window counted from the other side
sinceAfter(t, days) == t + days

\* time.Now().UTC().AddDate(0, 0, -days)
since(t, days) == t - days

\* the rows of the paths of a bag of visits: COUNT(*) and COUNT(DISTINCT ip)
PathRows(S) ==
    {[path |-> p,
      pv |-> BagCardinality(Restrict(S, {r \in DOMAIN S : r.path = p})),
      uv |-> Cardinality({r.ip : r \in {x \in DOMAIN S : x.path = p}})] :
        p \in {r.path : r \in DOMAIN S}}

\* ORDER BY / $sort on two keys, both descending
Sorted(rows, k1, k2) ==
    {f \in Orders(rows) :
        \A i, j \in DOMAIN f :
            i < j => \/ f[i][k1] > f[j][k1]
                     \/ f[i][k1] = f[j][k1] /\ f[i][k2] >= f[j][k2]}

\* a plausible slip: the window test the wrong way round
dashboardWhereBefore(V, hostname, from) ==
    Restrict(V, {r \in DOMAIN V : r.hostname = hostname /\ r.created_at <= from})

\* WHERE hostname = $1 AND created_at >= $2
dashboardWhere(V, hostname, from) ==
    Restrict(V, {r \in DOMAIN V : r.hostname = hostname /\ r.created_at >= from})

\* a plausible slip: ORDER BY uv DESC, pv DESC
dashboardSQLByUv(V, hostname, from) ==
    Sorted(PathRows(dashboardWhere(V, hostname, from)), "uv", "pv")

\* dashboardSQL: the result sets the statement can return
dashboardSQL(V, hostname, from) ==
    Sorted(PathRows(dashboardWhere(V, hostname, from)), "pv", "uv")

\* {"$group": {_id: {path, ip}, count: {$sum: 1}}}
groupByPathIP(col) ==
    {[path |-> k[1], ip |-> k[2],
      count |-> BagCardinality(Restrict(col,
                    {r \in DOMAIN col : r.path = k[1] /\ r.ip = k[2]}))] :
        k \in {<<r.path, r.ip>> : r \in DOMAIN col}}

RECURSIVE SumCount(_)
SumCount(G) ==
    IF G = {} THEN 0
    ELSE LET g == CHOOSE x \in G : TRUE IN g.count + SumCount(G \ {g})

\* a plausible slip: pv counts the groups as uv does
groupByPathCounting(G) ==
    {[path |-> p,
      pv |-> Cardinality({g \in G : g.path = p}),
      uv |-> Cardinality({g \in G : g.path = p})] : p \in {g.path : g \in G}}

\* {"$group": {_id: "$_id.path", uv: {$sum: 1}, pv: {$sum: "$count"}}}
groupByPath(G) ==
    {[path |-> p,
      pv |-> SumCount({g \in G : g.path = p}),
      uv |-> Cardinality({g \in G : g.path = p})] : p \in {g.path : g \in G}}

\* {"$sort": bson.M{"pv": -1, "uv": -1}}: a Go map, whose keys are written
\* in either order
SortKeys == {<<"pv", "uv">>, <<"uv", "pv">>}

\* the aggregation pipeline: the result sets it can return
pipeline(col) ==
    UNION {Sorted(groupByPath(groupByPathIP(col)), k[1], k[2]) : k \in SortKeys}

\* the comparator of sort.Slice in dashbaord
less(a, b) == IF a.pv > b.pv THEN TRUE ELSE a.uv > b.uv

Swap(s, i, j) == [s EXCEPT ![i] = s[j], ![j] = s[i]]

\* sort.Slice on a short slice: insertion sort
RECURSIVE SiftDown(_, _)
SiftDown(s, j) ==
    IF j > 1 /\ less(s[j], s[j - 1]) THEN SiftDown(Swap(s, j, j - 1), j - 1) ELSE s

RECURSIVE insertionSort(_, _)
insertionSort(s, i) ==
    IF i > Len(s) THEN s ELSE insertionSort(SiftDown(s, i), i + 1)

\* the records of one collection in dashbaord: Distinct paths in the order
\* the storage gives them, countVisit on each, then sort.Slice
dashbaordRecords(col) ==
    {insertionSort([i \in DOMAIN ps |->
                        [path |-> ps[i],
                         pv |-> countVisitMongo(col, ps[i]).pv,
                         uv |-> countVisitMongo(col, ps[i]).uv]], 2) :
        ps \in Orders({r.path : r \in DOMAIN col})}

\* g.SetLimit(runtime.NumCPU()): the cores of the machine
NumCPU == 2

NoDash ==
    [rev |-> "", pc |-> "idle", param |-> NoDays, days |-> 0, since |-> 0,
     hostname |-> <<>>, cols |-> <<>>,
     next |-> 1, task |-> <<>>, all |-> <<>>, out |-> <<>>, status |-> "",
     err |-> ""]

\* a task of the errgroup: own is what its own query gave ("cur" a cursor,
\* "ok" the decoded results, "err" an error), ret what it returned
NewTask == [pc |-> "new", starts |-> 0, results |-> <<>>, own |-> "", ret |-> ""]

\* the response of a dashboard handler: the page or JSON with the records,
\* or http.Error with the message
Answer(d, status, err, out) ==
    [d EXCEPT !.pc = "done", !.status = status, !.err = err, !.out = out]

\* the hostnames (collections) that hold visits
Stored(V) == {r.hostname : r \in DOMAIN V}

\* dashboardAPI: hostnamesSQL, timeseriesSQL, dashboardSQL; any of the three
\* queries may fail, and with no hostname at all the response is empty
DashboardAPI(d, hostnameParam) ==
    /\ dash.pc = "idle"
    /\ \E hs \in Orders(Stored(visits)),
          failed \in {"", "failed to list hostnames",
                      "failed to query timeseries", "failed to query paths"} :
        LET days == parseDays(d)
            hostname == IF hostnameParam = <<>> /\ Len(hs) > 0
                        THEN hs[1] ELSE hostnameParam
            r == [NoDash EXCEPT !.rev = "sql", !.param = d, !.days = days,
                                !.since = since(now, days),
                                !.hostname = hostname]
        IN  IF failed = "failed to list hostnames"
            THEN dash' = Answer([r EXCEPT !.hostname = <<>>], "error", failed, <<>>)
            ELSE IF hostname = <<>>
            THEN dash' = Answer(r, "ok", "", <<>>)
            ELSE IF failed # ""
            THEN dash' = Answer(r, "error", failed, <<>>)
            ELSE \E paths \in dashboardSQL(visits, hostname, r.since) :
                    dash' = Answer(r, "ok", "",
                                   <<[Host |-> hostname, Records |-> paths]>>)
    /\ UNCHANGED <<visits, now, q, cl, req, served>>
    /\ UNCHANGED indexVars

\* dashboard (Mongo): ListCollectionNames, which may fail, then the errgroup
DashboardList ==
    /\ dash.pc = "idle"
    /\ \/ dash' = Answer([NoDash EXCEPT !.rev = "mongo"], "error",
                         "failed to list collections", <<>>)
       \/ \E cols \in Orders(Stored(visits)) :
            dash' = [NoDash EXCEPT !.rev = "mongo", !.pc = "go", !.cols = cols,
                                   !.task = [h \in Stored(visits) |-> NewTask]]
    /\ UNCHANGED <<visits, now, q, cl, req, served>>
    /\ UNCHANGED indexVars

\* the tasks that hold a slot of the errgroup
InFlight(d) ==
    {h \in DOMAIN d.task :
        d.task[h].pc \in {"run", "chk1", "all", "chk2", "wrap", "ret", "lock"}}

\* a plausible slip: no limit set on the group
canGoUnlimited(n, limit) == TRUE

\* g.Go blocks while the limit of active goroutines is reached
canGo(n, limit) == n < limit

\* for _, hostname := range cols { g.Go(...) }
DashboardGo ==
    /\ dash.pc = "go"
    /\ dash.next <= Len(dash.cols)
    /\ canGo(Cardinality(InFlight(dash)), NumCPU)
    /\ dash' = [dash EXCEPT !.next = @ + 1,
                            !.task[dash.cols[dash.next]].pc = "run",
                            !.task[dash.cols[dash.next]].starts = @ + 1]
    /\ UNCHANGED <<visits, now, q, cl, req, served>>
    /\ UNCHANGED indexVars

\* cur, err = col.Aggregate(ctx, p, opts): err is the variable of the
\* handler, captured by every task and assigned with no lock held
TaskAggregate(h) ==
    /\ dash.pc = "go"
    /\ h \in DOMAIN dash.task
    /\ dash.task[h].pc = "run"
    /\ \E ok \in BOOLEAN :
        dash' = [dash EXCEPT !.err = IF ok THEN "" ELSE "mongo",
                             !.task[h].pc = "chk1",
                             !.task[h].own = IF ok THEN "cur" ELSE "err"]
    /\ UNCHANGED <<visits, now, q, cl, req, served>>
    /\ UNCHANGED indexVars

\* the process after a nil cursor is used by cur.All: the goroutine panics
\* outside the handler's goroutine and the process ends
Panicked == [NoDash EXCEPT !.rev = "mongo", !.pc = "panic", !.status = "panic"]

\* if err != nil after Aggregate and after cur.All: the task reads the
\* handler's err, which holds what the last writer assigned
TaskCheck(h) ==
    /\ dash.pc = "go"
    /\ h \in DOMAIN dash.task
    /\ dash.task[h].pc \in {"chk1", "chk2"}
    /\ IF dash.err # ""
       THEN dash' = [dash EXCEPT !.task[h].pc = "wrap"]
       ELSE IF dash.task[h].pc = "chk2"
       THEN dash' = [dash EXCEPT !.task[h].pc = "lock"]
       ELSE IF dash.task[h].own = "err"
       THEN dash' = Panicked
       ELSE dash' = [dash EXCEPT !.task[h].pc = "all"]
    /\ UNCHANGED <<visits, now, q, cl, req, served>>
    /\ UNCHANGED indexVars

\* err = cur.All(ctx, &results): all the rows, or an error with the rows
\* decoded before it
TaskAll(h) ==
    /\ dash.pc = "go"
    /\ h \in DOMAIN dash.task
    /\ dash.task[h].pc = "all"
    /\ \E results \in pipeline(Collection(visits, h)) :
        \/ dash' = [dash EXCEPT !.err = "", !.task[h].pc = "chk2",
                                !.task[h].own = "ok",
                                !.task[h].results = results]
        \/ \E k \in 0..(Len(results) - 1) :
            dash' = [dash EXCEPT !.err = "mongo", !.task[h].pc = "chk2",
                                 !.task[h].own = "err",
                                 !.task[h].results = SubSeq(results, 1, k)]
    /\ UNCHANGED <<visits, now, q, cl, req, served>>
    /\ UNCHANGED indexVars

\* err = fmt.Errorf("failed to count visit: %w", err)
TaskWrap(h) ==
    /\ dash.pc = "go"
    /\ h \in DOMAIN dash.task
    /\ dash.task[h].pc = "wrap"
    /\ dash' = [dash EXCEPT !.err = "failed to count visit",
                            !.task[h].pc = "ret"]
    /\ UNCHANGED <<visits, now, q, cl, req, served>>
    /\ UNCHANGED indexVars

\* return err: the value the handler's err holds at the return
TaskReturn(h) ==
    /\ dash.pc = "go"
    /\ h \in DOMAIN dash.task
    /\ dash.task[h].pc = "ret"
    /\ dash' = [dash EXCEPT !.task[h].ret = dash.err,
                            !.task[h].pc = IF dash.err # "" THEN "failed"
                                           ELSE "skipped"]
    /\ UNCHANGED <<visits, now, q, cl, req, served>>
    /\ UNCHANGED indexVars

\* mu.Lock(); all = append(all, ...); mu.Unlock(); return nil
TaskAppend(h) ==
    /\ dash.pc = "go"
    /\ h \in DOMAIN dash.task
    /\ dash.task[h].pc = "lock"
    /\ dash' = [dash EXCEPT !.task[h].pc = "done",
                            !.all = Append(@, [Host |-> h,
                                               Records |-> dash.task[h].results])]
    /\ UNCHANGED <<visits, now, q, cl, req, served>>
    /\ UNCHANGED indexVars

\* a plausible slip: the page rendered without g.Wait()
waitedNoWait(d) == d.next > Len(d.cols)

\* g.Wait() returns when every goroutine of the group has returned
waited(d) ==
    /\ d.next > Len(d.cols)
    /\ \A h \in DOMAIN d.task : d.task[h].pc \in {"done", "failed", "skipped"}

\* if err = g.Wait(); err != nil { return }, else the page with all: Wait
\* gives the first error a task returned
DashboardWait ==
    /\ dash.pc = "go"
    /\ waited(dash)
    /\ IF \E h \in DOMAIN dash.task : dash.task[h].pc = "failed"
       THEN \E h \in DOMAIN dash.task :
                /\ dash.task[h].pc = "failed"
                /\ dash' = Answer(dash, "error", dash.task[h].ret, <<>>)
       ELSE dash' = Answer(dash, "ok", "", dash.all)
    /\ UNCHANGED <<visits, now, q, cl, req, served>>
    /\ UNCHANGED indexVars

\* the handler has returned and the response is sent: the next request
DashboardReturn ==
    /\ dash.pc = "done"
    /\ dash' = NoDash
    /\ UNCHANGED <<visits, now, q, cl, req, served>>
    /\ UNCHANGED indexVars

\* dashbaord (the older Mongo handler): the collections one after the other;
\* an error of Distinct or countVisit is assigned to an err declared inside
\* the loop, so the handler returns with nothing written
Dashbaord ==
    /\ dash.pc = "idle"
    /\ \/ dash' = Answer([NoDash EXCEPT !.rev = "mongo-seq"], "error",
                         "failed to list collections", <<>>)
       \/ \E cols \in Orders(Stored(visits)), failAt \in 0..Cardinality(Stored(visits)) :
            LET r == [NoDash EXCEPT !.rev = "mongo-seq", !.cols = cols,
                        !.next = IF failAt = 0 THEN Len(cols) + 1 ELSE failAt,
                        !.task = [h \in Stored(visits) |->
                            LET k == CHOOSE i \in DOMAIN cols : cols[i] = h
                            IN  IF failAt = 0 \/ k < failAt
                                THEN [NewTask EXCEPT !.pc = "done", !.starts = 1]
                                ELSE IF k = failAt
                                THEN [NewTask EXCEPT !.pc = "failed", !.starts = 1]
                                ELSE NewTask]]
            IN  IF failAt # 0
                THEN dash' = Answer(r, "empty", "", <<>>)
                ELSE \E all \in [DOMAIN cols -> UNION {dashbaordRecords(Collection(visits, h)) : h \in Stored(visits)}] :
                        /\ \A i \in DOMAIN cols :
                              all[i] \in dashbaordRecords(Collection(visits, cols[i]))
                        /\ dash' = Answer(r, "ok", "",
                                [i \in DOMAIN cols |->
                                    [Host |-> cols[i], Records |-> all[i]]])
    /\ UNCHANGED <<visits, now, q, cl, req, served>>
    /\ UNCHANGED indexVars

----------------------------------------------------------------------------
(* Specifications *)

InitCalls ==
    /\ now = 0
    /\ q = NoQuery
    /\ cl = NoCleanup
    /\ req = Idle
    /\ served = 0
    /\ dash = NoDash

InitIndexes ==
    /\ indexedCollections = {}
    /\ bg = [n \in Collections |-> <<>>]
    /\ started = [n \in Collections |-> 0]
    /\ calls = 0
    /\ boot = NoBoot

\* rows seeded where requests are served: none, or a group one visit short
\* of the cleanup threshold
RequestRows == {Row(H1, "u1", PX, "ip2", 0)}

\* requests to /urlstat and to /urlstat/cleanup, served concurrently
Init ==
    /\ visits \in SeedStores(RequestRows, {0, Threshold - 1})
    /\ InitCalls
    /\ InitIndexes

Next ==
    \/ \E in \in Requests : RecordingStart(in)
    \/ SaveVisit
    \/ CountStep
    \/ CleanupBegin
    \/ CleanupEnd

Spec == Init /\ [][Next]_vars

\* countVisit and cleanup over the stores of CounterRows
InitCounter ==
    /\ visits \in {a (+) b : a \in SeedStores(CounterRows, SeedCounts),
                             b \in SeedStores(OtherRows, {0, 1})}
    /\ InitCalls
    /\ InitIndexes

NextCounter ==
    \/ \E h \in Hostnames, p \in Paths, m \in {"page", "site", "all"} : CountVisit(h, p, m)
    \/ \E h \in Hostnames, p \in Paths : CountVisitMongo(h, p)
    \/ CleanupBegin
    \/ CleanupEnd

SpecCounter == InitCounter /\ [][NextCounter]_vars

\* ensureIndexesOnce and its goroutines
InitIndex ==
    /\ visits = EmptyBag
    /\ InitCalls
    /\ InitIndexes

NextIndex ==
    \/ \E n \in Collections : EnsureIndexesOnce(n)
    \/ \E n \in Collections, k \in 1..MaxCalls : EnsureAttempt(n, k)
    \/ \E n \in Collections, k \in 1..MaxCalls : Backoff(n, k)
    \/ \E n \in Collections, k \in 1..MaxCalls : GoroutineExit(n, k)

SpecIndex == InitIndex /\ [][NextIndex]_vars

\* ensureIndexesOnce in its two revisions.  The goroutines are scheduled;
\* an ensureIndexes call under the 5-minute context returns, a timer fires,
\* and a goroutine whose work is done ends.  The call under
\* context.Background() returns when the storage answers.
InitEnsure ==
    /\ visits = EmptyBag
    /\ InitCalls
    /\ indexedCollections = {}
    /\ bg = [n \in Collections |-> <<>>]
    /\ started = [n \in Collections |-> 0]
    /\ calls = 0
    /\ boot \in {NoBoot, [NoBoot EXCEPT !.rev = "mongo-once"]}

NextEnsure ==
    \/ boot.rev = "mongo" /\ \E n \in Collections : EnsureIndexesOnce(n)
    \/ \E n \in Collections, k \in 1..MaxCalls : EnsureAttempt(n, k)
    \/ \E n \in Collections, k \in 1..MaxCalls : Backoff(n, k)
    \/ \E n \in Collections, k \in 1..MaxCalls : GoroutineExit(n, k)
    \/ boot.rev = "mongo-once" /\ \E n \in Collections : EnsureIndexesOnceBackground(n)
    \/ \E n \in Collections, k \in 1..MaxCalls : EnsureBackground(n, k)

SpecEnsure ==
    InitEnsure /\ [][NextEnsure]_vars
        /\ WF_vars(\E n \in Collections, k \in 1..MaxCalls : EnsureAttempt(n, k))
        /\ WF_vars(\E n \in Collections, k \in 1..MaxCalls : Backoff(n, k))
        /\ WF_vars(\E n \in Collections, k \in 1..MaxCalls : GoroutineExit(n, k))

\* the startup pass of init() next to the ensureIndexesOnce calls
NextStartup ==
    \/ NextIndex
    \/ StartupConnect
    \/ StartupList
    \/ StartupNext
    \/ StartupStep

SpecStartup == InitIndex /\ [][NextStartup]_vars

\* the startup pass alone: the goroutine of init() is scheduled, its pings
\* end within their timeouts and its timers fire
NextConnect ==
    \/ StartupInit
    \/ StartupServe
    \/ StartupConnect
    \/ StartupList
    \/ StartupNext
    \/ StartupStep

InitConnect ==
    /\ visits = EmptyBag
    /\ InitCalls
    /\ indexedCollections = {}
    /\ bg = [n \in Collections |-> <<>>]
    /\ started = [n \in Collections |-> 0]
    /\ calls = 0
    /\ boot = Booting

SpecConnect ==
    InitConnect /\ [][NextConnect]_vars
        /\ WF_vars(StartupInit) /\ WF_vars(StartupConnect)

\* time.Now() of the dashboard requests, in days
Today == 31

PZ == <<"/z">>

\* client address and day of the visits of a seeded path: four addresses
\* today, one visit 31 days ago and one 30 days ago
Slots ==
    << <<"ip1", Today>>, <<"ip2", Today>>, <<"ip3", Today>>, <<"ip4", Today>>,
       <<"ip1", Today - 31>>, <<"ip2", Today - 30>> >>

\* visits per slot: no visit; pv 5 uv 3; pv 5 uv 4; pv 9 uv 1; two old visits
NoVisits == <<0, 0, 0, 0, 0, 0>>
Pv5Uv3 == <<3, 1, 1, 0, 0, 0>>
Pv5Uv4 == <<2, 1, 1, 1, 0, 0>>
Pv9Uv1 == <<9, 0, 0, 0, 0, 0>>
OldVisits == <<0, 0, 0, 0, 1, 1>>

PathStore(hostname, path, prof) ==
    [r \in {Row(hostname, "u1", path, Slots[i][1], Slots[i][2]) :
                i \in {k \in DOMAIN Slots : prof[k] > 0}} |->
        prof[CHOOSE i \in DOMAIN Slots : Slots[i] = <<r.ip, r.created_at>>]]

\* stores the dashboards are asked about: three paths of h1, and h2 and
\* github.com with one visit or none
DashStores ==
    {PathStore(H1, PX, a) (+) PathStore(H1, PY, b) (+) PathStore(H1, PZ, c)
        (+) PathStore(H2, PX, x) (+) PathStore(GitHubHost, PX, y) :
        a \in {NoVisits, Pv5Uv3, OldVisits}, b \in {NoVisits, Pv5Uv4},
        c \in {NoVisits, Pv9Uv1},
        x \in {NoVisits, OldVisits}, y \in {NoVisits, Pv9Uv1}}

DaysParams == {NoDays, BadDays, Days(0), Days(-1), Days(1), Days(30), Days(31),
               Days(MaxDays), Days(MaxDays + 1), <<"7", "a">>}

InitDashboard ==
    /\ visits \in DashStores
    /\ now = Today
    /\ q = NoQuery
    /\ cl = NoCleanup
    /\ req = Idle
    /\ served = 0
    /\ dash = NoDash
    /\ InitIndexes

NextDashboard ==
    \/ \E d \in DaysParams, h \in {<<>>, H1} : DashboardAPI(d, h)
    \/ DashboardList
    \/ DashboardGo
    \/ \E h \in {H1, H2, GitHubHost} : TaskAggregate(h)
    \/ \E h \in {H1, H2, GitHubHost} : TaskCheck(h)
    \/ \E h \in {H1, H2, GitHubHost} : TaskAll(h)
    \/ \E h \in {H1, H2, GitHubHost} : TaskWrap(h)
    \/ \E h \in {H1, H2, GitHubHost} : TaskReturn(h)
    \/ \E h \in {H1, H2, GitHubHost} : TaskAppend(h)
    \/ DashboardWait
    \/ Dashbaord
    \/ DashboardReturn

SpecDashboard == InitDashboard /\ [][NextDashboard]_vars

\* recording next to cleanup: a first visit of a page reporting page and
\* site, a returning visitor on another site, and a badge request
RecordRequests ==
    {Request("GET", "", URL(HTTPS, H1, PX), "", "ip1", <<"page", "site">>,
             Browser, NoRepo, ""),
     Request("GET", "", URL(HTTPS, H2, PX), "v1", "ip2", <<"site">>,
             Browser, NoRepo, ""),
     Request("GET", "", URL(HTTPS, H1, PY), "v1", "ip2", <<"page">>,
             Browser, NoRepo, ""),
     Request("GET", "github", BadURL, "", "ip1", <<>>, Camo, CkRepo, "200")}

InitRecord ==
    /\ visits \in SeedStores(RequestRows, {0, Threshold - 1})
    /\ InitCalls
    /\ InitIndexes

NextRecord ==
    \/ \E in \in RecordRequests : RecordingStart(in)
    \/ SaveVisit
    \/ CountStep
    \/ CleanupBegin
    \/ CleanupEnd

SpecRecord == InitRecord /\ [][NextRecord]_vars

\* the days a client asks for: every number from -2 to 367, nothing, and
\* texts that are not a number
AllDays ==
    {Days(v) : v \in -2..(MaxDays + 2)}
        \cup {NoDays, BadDays, <<"-">>, <<"7", "a">>, <<" ", "7">>, <<"+", "7">>,
               <<"3", "_", "0">>}

\* dashboardAPI asked with every days parameter, about a path with a visit
\* 31 days old and one 30 days old
InitDays ==
    /\ visits \in {EmptyBag, PathStore(H1, PX, OldVisits),
                    PathStore(H1, PX, OldVisits) (+) PathStore(H2, PX, Pv5Uv3)}
    /\ now = Today
    /\ q = NoQuery
    /\ cl = NoCleanup
    /\ req = Idle
    /\ served = 0
    /\ dash = NoDash
    /\ InitIndexes

NextDays ==
    \/ \E d \in AllDays, h \in {<<>>, H1} : DashboardAPI(d, h)
    \/ DashboardReturn

SpecDays == InitDays /\ [][NextDays]_vars

\* a request to /urlstat of the visitor of the seeded visits, from another
\* address, next to every other operation on the store
FrameRequests ==
    {Request("GET", "", URL(HTTPS, H1, PX), "u1", "ip1", <<"page">>,
             Browser, NoRepo, "")}

InitFrame ==
    /\ visits \in SeedStores(RequestRows, {0, Threshold - 1})
    /\ InitCalls
    /\ InitIndexes

NextFrame ==
    \/ \E in \in FrameRequests : RecordingStart(in)
    \/ SaveVisit
    \/ CountStep
    \/ CountVisit(H1, PX, "page")
    \/ CountVisitMongo(H1, PX)
    \/ CleanupBegin
    \/ CleanupEnd
    \/ DashboardAPI(NoDays, <<>>)
    \/ DashboardList
    \/ DashboardGo
    \/ TaskAggregate(H1)
    \/ TaskCheck(H1)
    \/ TaskAll(H1)
    \/ TaskWrap(H1)
    \/ TaskReturn(H1)
    \/ TaskAppend(H1)
    \/ DashboardWait
    \/ Dashbaord
    \/ DashboardReturn

SpecFrame == InitFrame /\ [][NextFrame]_vars

----------------------------------------------------------------------------
(* Properties *)

\* the visits a count is about
Scope(V, hostname, path, mode) ==
    IF mode = "site" THEN Restrict(V, {r \in DOMAIN V : r.hostname = hostname})
    ELSE Restrict(V, {r \in DOMAIN V : r.hostname = hostname /\ r.path = path})

\* every visit of S came from a client address of its own
DistinctClients(S) ==
    \A r \in DOMAIN S :
        /\ S[r] = 1
        /\ \A x \in DOMAIN S : x # r => x.ip # r.ip

\* number of visits of a (partition, path) group
GroupCount(V, hostname, path) ==
    BagCardinality(Restrict(V, {r \in DOMAIN V : r.hostname = hostname /\ r.path = path}))

\* a cleanup call returns with success
CleanupDone == cl.pc = "scan" /\ cl'.pc = "idle" /\ cl'.last = "ok"

\* C1: every count, in page mode and in site mode, in either revision of
\* countVisit, returns uv <= pv, and uv = pv only when every visit in scope
\* has a client address of its own.
C1_UvAtMostPv ==
    [][/\ \A h \in Hostnames, p \in Paths, m \in {"page", "site"} :
            (CountVisit(h, p, m) /\ ~q'.err) =>
                /\ q'.uv <= q'.pv
                /\ q'.uv = q'.pv => DistinctClients(Scope(visits, h, p, m))
       /\ \A h \in Hostnames, p \in Paths :
            CountVisitMongo(h, p) =>
                /\ q'.uv <= q'.pv
                /\ q'.uv = q'.pv => DistinctClients(Scope(visits, h, p, "page"))
      ]_vars

\* a site count over two visits from two client addresses returned uv = pv = 2
C1_Witness ==
    /\ q.rev = "sql" /\ q.mode = "site" /\ ~q.err
    /\ q.pv = 2 /\ q.uv = 2
    /\ BagCardinality(Scope(visits, q.hostname, q.path, "site")) = 2

RECURSIVE SumPagePV(_, _, _)
\* sum over the paths ps of the pv that countVisit returns in page mode
SumPagePV(V, hostname, ps) ==
    IF ps = {} THEN 0
    ELSE LET p == CHOOSE x \in ps : TRUE
         IN  countVisit(V, hostname, p, "page").pv + SumPagePV(V, hostname, ps \ {p})

\* the paths of a partition
PathsOf(V, hostname) == {r.path : r \in {x \in DOMAIN V : x.hostname = hostname}}

\* C2: the pv of a site count equals the sum, over the paths of the
\* partition, of the pv of the page counts.
C2_SitePvIsSumOfPagePv ==
    [][\A h \in Hostnames, p \in Paths :
            (CountVisit(h, p, "site") /\ ~q'.err) =>
                q'.pv = SumPagePV(visits, h, PathsOf(visits, h))
      ]_vars

\* a site count of a partition with visits on two paths
C2_Witness ==
    /\ q.rev = "sql" /\ q.mode = "site" /\ ~q.err /\ q.hostname = H1
    /\ GroupCount(visits, H1, PX) = 12
    /\ GroupCount(visits, H1, PY) = 3
    /\ q.pv = 15

\* C3: a cleanup run with no insert beside it deletes every visit of the
\* groups with fewer than 10 visits, leaves every visit of the groups with
\* 10 or more, and returns the number of visits it deleted.
C3_CleanupDeletesLowGroups ==
    [][CleanupDone =>
        /\ \A r \in DOMAIN visits :
              IF GroupCount(visits, r.hostname, r.path) < Threshold
              THEN CopiesIn(r, visits') = 0
              ELSE CopiesIn(r, visits') = visits[r]
        /\ DOMAIN visits' \subseteq DOMAIN visits
        /\ cl'.deleted = BagCardinality(visits) - BagCardinality(visits')
      ]_vars

\* 12 visits on /x and 3 on /y: the 3 are gone, the 12 remain, the result is 3
C3_Witness ==
    /\ cl.pc = "idle" /\ cl.last = "ok" /\ cl.deleted = 3
    /\ GroupCount(visits, H1, PX) = 12
    /\ GroupCount(visits, H1, PY) = 0
    /\ BagCardinality(visits) = 12

\* C4: a cleanup run that follows a successful run, with no visit saved
\* since the snapshot of that run, deletes nothing, returns 0 and leaves the
\* store as it was.
C4_CleanupIdempotent ==
    [][(CleanupDone /\ cl.after) => (cl'.deleted = 0 /\ visits' = visits)]_vars

\* a second run has returned 0 on a store that still holds a group
C4_Witness ==
    /\ cl.pc = "idle" /\ cl.last = "ok" /\ cl.after /\ ~cl.ins
    /\ cl.deleted = 0
    /\ GroupCount(visits, H1, PX) = Threshold

\* C5 as claimed: a group that reaches 10 visits through visits saved while
\* the cleanup statement runs loses no visit to that cleanup run.
C5_NeverDeletesGroupGrownDuringScan ==
    [][CleanupDone =>
        \A r \in DOMAIN visits :
            (/\ GroupCount(cl.snapshot, r.hostname, r.path) < Threshold
             /\ GroupCount(visits, r.hostname, r.path) >= Threshold)
                => CopiesIn(r, visits') = visits[r]
      ]_vars

\* C5 as amended: cleanup decides on the table as of the start of its
\* statement.  It deletes the visits of that snapshot whose group had fewer
\* than 10 visits in the snapshot, also when the group has reached 10 since;
\* a visit saved after the snapshot, and every visit of a group that had 10
\* or more visits in the snapshot, stays.
C5_CleanupDeletesBySnapshot ==
    [][CleanupDone =>
        /\ \A r \in DOMAIN visits :
              CopiesIn(r, visits') =
                  IF GroupCount(cl.snapshot, r.hostname, r.path) < Threshold
                  THEN visits[r] - CopiesIn(r, cl.snapshot)
                  ELSE visits[r]
        /\ DOMAIN visits' \subseteq DOMAIN visits
      ]_vars

\* a visit saved during the scan made a group of 9 one of 10: the 9 are
\* deleted, the new visit is all that is left
C5_Witness ==
    /\ cl.pc = "idle" /\ cl.last = "ok" /\ cl.ins
    /\ cl.deleted = Threshold - 1
    /\ GroupCount(visits, H1, PX) = 1
    /\ req.hostname = H1 /\ req.path = PX /\ req.inserts = 1 /\ req.vid # ""

\* saveVisit returns to recording with success
SaveDone == req.pc = "save" /\ req'.pc # "save" /\ req'.err # "failed to save visit"

\* C6: a successful saveVisit stores one Visit carrying the visitor id it
\* returns; that id is the caller's token when the token is not empty, and
\* a generated, non-empty identifier when it is.
C6_IdentityResolution ==
    [][SaveDone =>
        /\ visits' = visits (+) SetToBag({Row(req.hostname, req'.vid, req.path,
                                               req.in.ip, now)})
        /\ req.in.cookie # "" => req'.vid = req.in.cookie
        /\ req.in.cookie = "" => (req'.vid \in UUIDs /\ req'.vid # "")
      ]_vars

\* two successive requests without a token were saved on h2, each under a
\* generated identifier
C6_Witness ==
    /\ served = 2 /\ req.in.cookie = "" /\ req.vid \in UUIDs
    /\ BagCardinality(Collection(visits, H2)) = 2
    /\ \A r \in DOMAIN Collection(visits, H2) : r.visitor_id \in UUIDs

\* C7: a request that carried a visitor token gets no Set-Cookie; a token is
\* set only for a request that carried none and whose visit was saved, and
\* it is the identifier saveVisit returned.
C7_SetOnceToken ==
    /\ req.in.cookie # "" => req.setCookie = ""
    /\ req.setCookie # "" =>
          /\ req.in.cookie = ""
          /\ req.inserts = 1
          /\ req.setCookie = req.vid
          /\ req.err # "failed to save visit"

\* a badge request that carried a token was saved under it and answered
\* without a Set-Cookie
C7_Witness ==
    /\ req.in.mode = "github" /\ req.pc = "done" /\ req.body = "badge"
    /\ req.in.cookie = "v1" /\ req.vid = "v1" /\ req.setCookie = ""

\* the scheme+host of the declared URL is an entry of the allow-list
OnAllowList(u) == \E idx \in 1..Len(Domain) : Origin(u) = Domain[idx]

\* C8 as claimed: a plain request whose declared URL parses to a scheme+host
\* that is no entry of the allow-list ends with "origin not allowed", saves
\* no Visit and is issued no token.
C8_OnlyAllowListedOrigins ==
    (/\ req.pc # "idle" /\ req.in.method = "GET" /\ req.in.mode = ""
     /\ ~req.in.url.err /\ ~OnAllowList(req.in.url))
        => /\ req.pc = "done"
           /\ req.err = "origin not allowed"
           /\ req.inserts = 0
           /\ req.setCookie = ""

\* C9: when the insert fails saveVisit returns the error with an empty
\* visitor id after one insert; recording answers with the error, sets no
\* cookie and runs no count.
C9_SaveFailure ==
    req.err = "failed to save visit" =>
        /\ req.pc = "done"
        /\ req.vid = ""
        /\ req.inserts = 1
        /\ req.setCookie = ""
        /\ req.counts = 0
        /\ req.body = ""
        /\ req.stat = NoStat

\* the insert of a request without a token that asked for counts failed
C9_Witness ==
    /\ req.err = "failed to save visit"
    /\ req.in.cookie = "" /\ req.in.report = <<"page", "site">>

\* C10: a call of ensureIndexesOnce made while a background procedure of
\* the collection is running starts none, and no collection ever has two
\* of them running.
C10_OneProcedureInFlight ==
    [][\A n \in Collections :
        /\ Len(bg'[n]) <= 1
        /\ (calls' # calls /\ Len(bg[n]) > 0) =>
              (bg'[n] = bg[n] /\ started'[n] = started[n])
      ]_vars

\* three calls for one collection while its first procedure is running
C10_Witness ==
    /\ calls = 3 /\ started[H1] = 1 /\ started[H2] = 0
    /\ Len(bg[H1]) = 1

\* the readiness of a partition, read off the marker and the goroutine
Readiness(n) ==
    IF n \notin indexedCollections THEN "unknown"
    ELSE IF bg[n] = <<>> THEN "ready"
    ELSE IF bg[n][1].pc # "returned" THEN "ensuring"
    ELSE IF bg[n][1].err = NoErr THEN "ready"
    ELSE "failed"

ReadinessSteps ==
    {<<"unknown", "ensuring">>, <<"ensuring", "ready">>,
     <<"ensuring", "failed">>, <<"failed", "unknown">>}

\* C11: the readiness of a partition changes only along unknown -> ensuring
\* -> ready or ensuring -> failed -> unknown; ready is never left, and no
\* call made when the partition is ready starts an ensure procedure.
C11_ReadinessStateMachine ==
    [][\A n \in Collections :
        LET a == Readiness(n)
            b == Readiness(n)'
        IN  /\ a # b => <<a, b>> \in ReadinessSteps
            /\ a = "ready" => (b = "ready" /\ started'[n] = started[n])
      ]_vars

\* a partition became ready at the second procedure, after the first one
\* failed, and the calls made since started none
C11_Witness ==
    /\ Readiness(H1) = "ready" /\ bg[H1] = <<>>
    /\ started[H1] = 2 /\ started[H2] = 0
    /\ calls = MaxCalls

\* the goroutine of n ends after ensureIndexesWithRetry returned an error
FailedExit(n) ==
    /\ Readiness(n) = "failed"
    /\ bg'[n] = <<>>

\* C12: when the ensure procedure of a partition has failed, the goroutine
\* removes the marker and nothing else changes: no request, query or
\* cleanup sees the failure; the next ensureIndexesOnce call for the
\* partition starts a new procedure.
C12_FailureResetsMarker ==
    [][\A n \in Collections :
        /\ FailedExit(n) =>
              /\ n \notin indexedCollections'
              /\ Readiness(n)' = "unknown"
              /\ UNCHANGED <<storeVars, started, calls>>
        /\ (Readiness(n) = "unknown" /\ n \in indexedCollections') =>
              /\ started'[n] = started[n] + 1
              /\ bg'[n] = <<NewRun>>
      ]_vars

\* a second procedure was started for a partition whose first one failed
\* with its retries used up
C12_Witness ==
    /\ started[H1] = 2
    /\ bg[H1] = <<NewRun>>
    /\ H1 \in indexedCollections

\* an ensureIndexesWithRetry in progress
Executing(p) == p.pc \in {"try", "wait"}

\* C19 as claimed: at most one ensure procedure is executing for a
\* partition, the startup pass and the background goroutines counted
\* together.
C19_OneProcedurePerPartition ==
    \A n \in Collections :
        Cardinality({k \in 1..Len(bg[n]) : Executing(bg[n][k])})
            + (IF boot.pc = "run" /\ boot.name = n /\ Executing(boot.run)
               THEN 1 ELSE 0) <= 1

\* the runs of ensureIndexesWithRetry of the background goroutines
Runs == UNION {{bg[n][k] : k \in 1..Len(bg[n])} : n \in Collections}

\* the attempts and waits of a run: at most maxRetries attempts, the wait
\* after the j-th failed attempt j x 2s, an attempt only after the wait that
\* follows the one before it, and a successful attempt returned at once
RetryShape(p) ==
    /\ p.attempts <= maxRetries
    /\ p.waits = [j \in 1..Len(p.waits) |-> 2 * j]
    /\ p.pc = "try" => Len(p.waits) = p.attempts
    /\ (p.err = NoErr /\ p.attempts >= 1) =>
          (p.pc = "returned" /\ Len(p.waits) = p.attempts - 1)
    /\ (p.pc = "returned" /\ p.err = NoErr) => p.attempts >= 1

\* C20 as claimed: at most 3 attempts, success returned at the first
\* successful one, a wait of i x 2s after the i-th failed attempt, and the
\* last attempt's error returned once the 3 attempts have failed.
C20_RetryReturnsLastError ==
    \A p \in Runs :
        /\ RetryShape(p)
        /\ (p.pc = "returned" /\ p.attempts = maxRetries /\ p.err # NoErr)
              => p.err = CreateErr(maxRetries)

\* C20 as amended: the same attempts and waits; an error is returned either
\* because the context was done during a wait, and then it is the
\* context's error, also after the last attempt, or after 3 failed attempts
\* and the wait that follows the third, and then it is the third attempt's.
C20_RetryWithinDeadline ==
    \A p \in Runs :
        /\ RetryShape(p)
        /\ (p.pc = "returned" /\ p.err # NoErr) =>
              \/ p.err = CtxErr
              \/ /\ p.err = CreateErr(maxRetries)
                 /\ p.attempts = maxRetries
                 /\ p.waits = <<2, 4, 6>>

\* three attempts failed, the waits were 2s, 4s and 6s, and the third
\* attempt's error is returned
C20_Witness ==
    \E p \in Runs :
        /\ p.pc = "returned" /\ p.err = CreateErr(maxRetries)
        /\ p.attempts = maxRetries /\ p.waits = <<2, 4, 6>>

\* the records of a dashboard response, partition by partition
Tables == {dash.out[i] : i \in DOMAIN dash.out}

\* C13 as claimed: in every dashboard response the rows of a partition are
\* ordered by pv descending, and rows with equal pv by uv descending.
C13_RowsRankedByPvThenUv ==
    dash.status = "ok" =>
        \A e \in Tables : \A i, j \in DOMAIN e.Records :
            i < j => \/ e.Records[i].pv > e.Records[j].pv
                     \/ /\ e.Records[i].pv = e.Records[j].pv
                        /\ e.Records[i].uv >= e.Records[j].uv

\* the visits a response is about: those of the window for dashboardAPI,
\* the whole collection for the Mongo handlers
InWindow(hostname) ==
    IF dash.rev = "sql"
    THEN [r \in {x \in DOMAIN visits : x.hostname = hostname
                                        /\ x.created_at >= now - dash.days}
            |-> visits[r]]
    ELSE [r \in {x \in DOMAIN visits : x.hostname = hostname} |-> visits[r]]

VisitsOn(S, path) == {r \in DOMAIN S : r.path = path}

RECURSIVE Total(_, _)
Total(S, rows) ==
    IF rows = {} THEN 0
    ELSE LET r == CHOOSE x \in rows : TRUE IN S[r] + Total(S, rows \ {r})

\* the query behind a table of the response gave all its rows
Decoded(e) == dash.rev = "mongo" => dash.task[e.Host].own = "ok"

\* C14: in a dashboard response the row of a path has for pv the number of
\* visits on the path and for uv the number of distinct client addresses on
\* it, whichever the revision, and there is one row for each path with
\* visits when the query gave all its rows; where no window cuts visits
\* off, the row is what countVisit returns for the page.
C14_RowsArePageCounts ==
    dash.status = "ok" =>
        \A e \in Tables :
            LET S == InWindow(e.Host)
            IN  /\ {e.Records[i].path : i \in DOMAIN e.Records}
                        \subseteq {r.path : r \in DOMAIN S}
                /\ Len(e.Records)
                        = Cardinality({e.Records[i].path : i \in DOMAIN e.Records})
                /\ Decoded(e) => Len(e.Records) = Cardinality({r.path : r \in DOMAIN S})
                /\ \A i \in DOMAIN e.Records :
                    LET row == e.Records[i]
                    IN  /\ row.pv = Total(S, VisitsOn(S, row.path))
                        /\ row.uv = Cardinality({r.ip : r \in VisitsOn(S, row.path)})
                        /\ S = Collection(visits, e.Host) =>
                              /\ row.pv = countVisit(visits, e.Host, row.path, "page").pv
                              /\ row.uv = countVisit(visits, e.Host, row.path, "page").uv

\* the pipeline answered for h1 with the rows pv 5 uv 3, pv 5 uv 4 and
\* pv 9 uv 1: repeated visits of an address are in pv and not in uv
C14_Witness ==
    /\ dash.rev = "mongo" /\ dash.status = "ok"
    /\ \E e \in Tables :
        /\ e.Host = H1
        /\ {e.Records[i] : i \in DOMAIN e.Records} =
              {[path |-> PX, pv |-> 5, uv |-> 3], [path |-> PY, pv |-> 5, uv |-> 4],
               [path |-> PZ, pv |-> 9, uv |-> 1]}

\* the rows of a table are the counts of the visits of the bag S
CountsOf(e, S) ==
    /\ {e.Records[i].path : i \in DOMAIN e.Records} \subseteq {r.path : r \in DOMAIN S}
    /\ Decoded(e) =>
          {e.Records[i].path : i \in DOMAIN e.Records} = {r.path : r \in DOMAIN S}
    /\ \A i \in DOMAIN e.Records :
          e.Records[i].pv = Total(S, VisitsOn(S, e.Records[i].path))

\* the visits of a partition not older than a number of days
NotOlder(hostname, days) ==
    [r \in {x \in DOMAIN visits : x.hostname = hostname
                                   /\ x.created_at >= now - days} |-> visits[r]]

\* C15 as claimed: asked with a window of 0 days the dashboard counts every
\* stored visit of the partition whatever its age; asked with 30 days it
\* counts the visits of the last 30 days only.
C15_ZeroDaysIsUnbounded ==
    (dash.rev = "sql" /\ dash.status = "ok") =>
        \A e \in Tables :
            /\ dash.param = Days(0) => CountsOf(e, Collection(visits, e.Host))
            /\ dash.param = Days(30) => CountsOf(e, NotOlder(e.Host, 30))

\* the numbers a client asks for, as written in the query
Asked == [v \in -2..367 |-> Days(v)]

\* the window dashboardAPI uses for the days asked
WindowAsked ==
    IF \E v \in 1..365 : dash.param = Asked[v]
    THEN CHOOSE v \in 1..365 : dash.param = Asked[v]
    ELSE IF dash.param \in {<<"7", "a">>, <<" ", "7">>, <<"+", "7">>} THEN 7
    ELSE 30

\* C15 as amended: dashboardAPI always applies a window, of the days asked
\* when they are 1 to 365 and of 30 days otherwise, 0 included: it counts
\* the visits with created_at on or after now minus the window, so with 30
\* days a visit 31 days old is left out and one 30 days old is counted.  The
\* Mongo dashboards apply no window and count every stored visit.
C15_WindowOfDays ==
    dash.status = "ok" =>
        \A e \in Tables :
            IF dash.rev = "sql"
            THEN CountsOf(e, NotOlder(e.Host, WindowAsked))
            ELSE CountsOf(e, Collection(visits, e.Host))

\* asked with days=30 about a path with one visit 31 days old and one 30
\* days old, dashboardAPI counts the second only
C15_Witness ==
    /\ dash.rev = "sql" /\ dash.status = "ok" /\ dash.param = Days(30)
    /\ \E r \in DOMAIN visits :
          r.hostname = H1 /\ r.path = PX /\ r.created_at = now - 31
    /\ \E e \in Tables :
          e.Host = H1 /\ \E i \in DOMAIN e.Records :
              e.Records[i].path = PX /\ e.Records[i].pv = 1

\* C16 as claimed: when the query of a partition fails in a dashboard
\* aggregation the response is still a success, made of the tables of the
\* partitions whose query succeeded.
C16_FailedPartitionIsSkipped ==
    (/\ dash.pc = "done" /\ dash.rev \in {"mongo", "mongo-seq"}
     /\ \E h \in DOMAIN dash.task : dash.task[h].pc = "failed")
        => /\ dash.status = "ok"
           /\ {e.Host : e \in Tables}
                = {h \in DOMAIN dash.task : dash.task[h].pc = "done"}

\* C17: in an aggregation of the errgroup at most NumCPU partition queries
\* are in flight, every collection listed gets one task, started once, and
\* the handler answers only when every task has returned.
C17_BoundedFanOut ==
    dash.rev = "mongo" =>
        /\ Cardinality(InFlight(dash)) <= NumCPU
        /\ \A h \in DOMAIN dash.task : dash.task[h].starts <= 1
        /\ dash.pc = "go" =>
              /\ DOMAIN dash.task = Stored(visits)
              /\ {dash.cols[i] : i \in DOMAIN dash.cols} = Stored(visits)
              /\ Len(dash.cols) = Cardinality(Stored(visits))
        /\ (dash.pc = "done" /\ dash.err # "failed to list collections") =>
              \A h \in Stored(visits) :
                  /\ dash.task[h].starts = 1
                  /\ dash.task[h].pc \in {"done", "failed", "skipped"}

\* NumCPU queries are in flight and a third partition waits for its turn
C17_Witness ==
    /\ dash.rev = "mongo" /\ dash.pc = "go"
    /\ Cardinality(InFlight(dash)) = NumCPU
    /\ dash.next <= Len(dash.cols)

\* C18: a step that answers a countVisit or moves a dashboard request on
\* leaves the stored visits as they are; a step that changes them either
\* adds visits and keeps every stored one as it is, or is the end of a
\* cleanup run, which adds and alters none.
C18_ReadsArePure ==
    [][/\ (q' # q \/ dash' # dash \/ req'.counts # req.counts) => visits' = visits
       /\ visits' # visits =>
            IF CleanupDone
            THEN \A r \in DOMAIN visits' : CopiesIn(r, visits) >= visits'[r]
            ELSE /\ \A r \in DOMAIN visits : CopiesIn(r, visits') >= visits[r]
                 /\ BagCardinality(visits') = BagCardinality(visits) + 1
      ]_vars

\* visits were saved, counted, listed by a dashboard and removed by cleanup
C18_Witness ==
    /\ cl.last = "ok" /\ cl.deleted > 0
    /\ req.inserts = 1 /\ req.counts > 0 /\ served = 2
    /\ q.rev # ""
    /\ dash.status = "ok" /\ dash.out # <<>>

\* C21 as claimed: a step of a partition task changes nothing that the tasks
\* of the aggregation share except the result collection, to which it
\* appends one table; and when every task has returned, each partition whose
\* own query succeeded is in the result collection exactly once.
C21_TasksShareOnlyTheResult ==
    [][(dash.rev = "mongo" /\ dash.pc = "go" /\ dash'.pc = "go") =>
          /\ dash'.err = dash.err
          /\ \/ dash'.all = dash.all
             \/ \E e \in [Host : DOMAIN dash.task, Records : {dash'.all[Len(dash'.all)].Records}] :
                    dash'.all = Append(dash.all, e)
          /\ waited(dash') =>
                \A h \in DOMAIN dash'.task :
                    /\ Cardinality({i \in DOMAIN dash'.all : dash'.all[i].Host = h}) <= 1
                    /\ dash'.task[h].own = "ok" =>
                          \E i \in DOMAIN dash'.all : dash'.all[i].Host = h
      ]_vars

\* waitForConnection as far as it has run: at most ten polls and one more
\* ping, a wait of two seconds after each failed poll, no step after a ping
\* that succeeded, and nil returned only for such a ping
ConnShape(c) ==
    /\ c.i <= connAttempts /\ c.pings <= connAttempts + 1
    /\ c.waits = [k \in 1..c.i |-> 2]
    /\ c.pings \in {c.i, c.i + 1}
    /\ c.up => (c.pc = "returned" /\ c.err = NoErr)
    /\ c.pc = "ping" => c.pings = c.i
    /\ c.pc = "select" => (c.pings = c.i + 1 /\ c.i < connAttempts)
    /\ c.pc = "returned" =>
          \/ c.err = NoErr /\ c.up /\ c.pings = c.i + 1
          \/ c.err = CtxErr /\ c.pings = c.i + 1 /\ c.i < connAttempts
          \/ c.err = PingErr(connAttempts + 1) /\ c.i = connAttempts
                /\ c.pings = connAttempts + 1

Unreachable ==
    {<<"mongo.Connect">>, <<"pgxpool.New">>, <<"db.Ping">>,
     PingErr(connAttempts + 1), CtxErr}

\* C23 as claimed: when the storage is not reached in the connectivity wait
\* of the startup the process exits and never serves; no other failure of
\* the storage makes the process exit.
C23_FatalAtStartup ==
    /\ boot.err \in Unreachable => boot.proc = "fatal"
    /\ (boot.err # NoErr /\ boot.err \notin Unreachable \cup {<<"ListenAndServe">>})
          => boot.proc # "fatal"

\* C24: dashboardAPI takes 30 days when the days parameter is absent or is
\* not a number, takes 30 days for 0, for a negative number and for a number
\* above 365, and takes every number from 1 to 365 as given, also when
\* spaces or a plus sign precede it or other text follows it; the window
\* starts that many days before now.
C24_DaysParameter ==
    (dash.rev = "sql" /\ dash.pc = "done") =>
        /\ dash.param \in {NoDays, BadDays, <<"-">>, <<"3", "_", "0">>}
              => dash.days = 30
        /\ \A v \in DOMAIN Asked :
              dash.param = Asked[v] =>
                  dash.days = IF v >= 1 /\ v <= 365 THEN v ELSE 30
        /\ dash.param \in {<<"7", "a">>, <<" ", "7">>, <<"+", "7">>} => dash.days = 7
        /\ dash.since = now - dash.days

\* asked for 365 days the response counts the visit that is 31 days old
C24_Witness ==
    /\ dash.rev = "sql" /\ dash.status = "ok"
    /\ dash.param = <<"3", "6", "5">> /\ dash.days = 365
    /\ \E e \in Tables :
          e.Host = H1 /\ \E i \in DOMAIN e.Records :
              e.Records[i].path = PX /\ e.Records[i].pv = 2

\* a wait of the background procedure of n ends with its return
CancelledInWait(n) ==
    /\ bg[n] # <<>> /\ bg'[n] # <<>>
    /\ bg[n][1].pc = "wait" /\ bg'[n][1].pc = "returned"
    /\ bg[n][1].i + 1 < maxRetries

\* C25 as claimed: a partition that is ensuring becomes ready or unknown in
\* every execution, and a background procedure cancelled in a backoff wait
\* returns the context error with no attempt made after it.
C25_EnsureTerminates ==
    /\ \A n \in Collections :
          (Readiness(n) = "ensuring") ~> (Readiness(n) \in {"ready", "unknown"})
    /\ [][\A n \in Collections :
            CancelledInWait(n) =>
                /\ bg'[n][1].err = CtxErr
                /\ bg'[n][1].attempts = bg[n][1].attempts]_vars

\* a countVisit of the request has returned
Counted == req.pc = "count" /\ req'.counts = req.counts + 1

\* the save of a request adds one visit, in the partition and on the path
\* of the declared URL (of the repository for a badge); every count of the
\* request comes after its save and removes nothing, whether it fails or not
SavedThenCounted ==
    /\ SaveDone =>
          /\ \E r \in DOMAIN visits' :
                /\ visits' = visits (+) SetToBag({r})
                /\ IF req.in.mode = "github"
                   THEN r.hostname = GitHubHost /\ r.path = RepoPath(req.in.repo.ss)
                   ELSE r.hostname = req.in.url.Host /\ r.path = req.in.url.Path
          /\ req.counts = 0
    /\ Counted => (req.inserts = 1 /\ visits' = visits)
    /\ visits' # visits => (SaveDone \/ CleanupDone)

\* C26 as claimed: a recording call that succeeds adds exactly one visit
\* with the host and path of the declared URL, before it counts; every
\* page_pv and site_pv it reports is at least 1; a failed count removes
\* nothing.
C26_SavedBeforeCounted ==
    [][/\ SavedThenCounted
       /\ (Counted /\ req'.err = "") =>
              /\ Head(req.todo) = "page" => req'.stat.PagePV >= 1
              /\ Head(req.todo) = "site" => req'.stat.SitePV >= 1
      ]_vars

\* the visits of the partition and path of the request that are stored
OnPage == {r \in DOMAIN visits : r.hostname = req.hostname /\ r.path = req.path}
OnSite == {r \in DOMAIN visits : r.hostname = req.hostname}

\* C26 as amended: a recording call that succeeds adds exactly one visit
\* with the host and path of the declared URL, before it counts, and a
\* failed count removes nothing.  The page_pv and site_pv it reports are
\* the numbers of visits stored when they are counted, and between the save
\* and the count only a cleanup run removes visits: the counts include the
\* saved visit, and are at least 1, unless a cleanup run has deleted it
\* meanwhile, in which case they can be 0.
C26_SavedThenCountedAsStored ==
    [][/\ SavedThenCounted
       /\ (Counted /\ req'.err = "") =>
              /\ Head(req.todo) = "page" => req'.stat.PagePV = Total(visits, OnPage)
              /\ Head(req.todo) = "site" => req'.stat.SitePV = Total(visits, OnSite)
      ]_vars

\* a first visit was saved, a cleanup run deleted it, and the response
\* reports page_pv 0 and site_pv 0
C26_Witness ==
    /\ req.pc = "done" /\ req.err = "" /\ req.body = "json"
    /\ req.inserts = 1 /\ req.counts = 2
    /\ req.stat.PagePV = 0 /\ req.stat.SitePV = 0
    /\ cl.last = "ok" /\ cl.deleted = 1

\* the (partition, path) groups that hold a visit before or after a step
GroupsStored ==
    {<<r.hostname, r.path>> : r \in DOMAIN visits \cup DOMAIN visits'}

SameCount(hostname, path, mode) ==
    countVisit(visits', hostname, path, mode) = countVisit(visits, hostname, path, mode)

\* C27: counts are computed within one partition.  A recorded visit of
\* partition A changes no page count and no site count of another
\* partition, and no page count of another path of A; a cleanup run
\* changes the count of no group other than the groups it found below the
\* threshold.
C27_CountsArePartitioned ==
    [][/\ SaveDone =>
            \E r \in DOMAIN visits' :
                /\ visits' = visits (+) SetToBag({r})
                /\ countVisit(visits', r.hostname, r.path, "page").pv
                       = countVisit(visits, r.hostname, r.path, "page").pv + 1
                /\ \A g \in GroupsStored :
                      /\ g[1] # r.hostname =>
                            SameCount(g[1], g[2], "page") /\ SameCount(g[1], g[2], "site")
                      /\ (g[1] = r.hostname /\ g[2] # r.path) =>
                            SameCount(g[1], g[2], "page")
       /\ CleanupDone =>
            \A g \in GroupsStored :
                g \notin lowVisitPaths(cl.snapshot) => SameCount(g[1], g[2], "page")
      ]_vars

\* a cleanup run has deleted the one visit of a page of one partition and
\* left the Threshold visits of the same path in another partition
C27_Witness ==
    /\ cl.last = "ok" /\ cl.deleted = 1
    /\ GroupCount(visits, H1, PX) = Threshold
    /\ GroupCount(visits, H2, PX) = 0
    /\ served = 2

====
